---- MODULE Spec2Model ----
(***************************************************************************)
(* idiomatic::solve of src/main.rs: six robot lanes, each a spawned task   *)
(* reading its own unbounded channel, share one rate limiter per task name *)
(* and one semaphore of three permits.  The dispatcher (the body of solve) *)
(* sends the batch job by job, drops the senders and joins the lanes.      *)
(*                                                                         *)
(* A lane is at one of the places of its loop where it can stay while the  *)
(* others run: rx.recv().await ("idle"), rt.until_ready().await suspended  *)
(* ("until_ready"), sem.acquire().await not yet answered ("cell": the      *)
(* limiter's cell is taken), answered Pending without a place in the queue *)
(* because the poll's cooperative budget is used up ("yield"), queued      *)
(* ("acquire"), given a permit while queued ("woken") or at once           *)
(* ("permit") and not yet past println "started", the job body ("exec"),   *)
(* past the loop ("done"), or panicked in execute_task.                    *)
(*                                                                         *)
(* Time is discrete, one tick per second (the unit of the rate limiters'   *)
(* periods).  The clock is kept relative: every timer counts the ticks to  *)
(* or since an event and saturates, so the state space is finite while     *)
(* time itself is unbounded.  The sleeps of the job bodies (0.3 s, 0.7 s,  *)
(* 0.5 s) are shorter than a tick and only guarantee a minimum, and a task *)
(* that is ready runs when the runtime gets to it: any step may come any   *)
(* number of ticks after it became possible.                               *)
(***************************************************************************)
EXTENDS Integers, Sequences, FiniteSets

VARIABLES
    tasks,          \* the batch handed to solve: sequence of [id, robot, task]
    solve_pc,       \* where the body of solve is
    sent,           \* number of jobs of the batch the dispatch loop has passed
    robots_senders, \* TRUE while the senders map is alive (inboxes open)
    inbox,          \* per robot: the channel's queue of [id, task]
    lane_pc,        \* per robot: where the spawned lane is
    cur,            \* per robot: the job the lane's loop iteration holds
    spent,          \* per robot: units of cooperative budget the poll has used
                    \* (counted at recv; past it, CoopBudget if used up, else 0)
    limiter,        \* per task name: ticks until the limiter has a cell again
    permits,        \* free permits of the semaphore
    waiters,        \* lanes queued on the semaphore, oldest first
    passed,         \* per robot: ids whose until_ready has returned, in order
    started,        \* per robot: ids printed "started", in order
    finished,       \* per robot: ids printed "finished", in order
    invalid,        \* per robot: ids printed "invalid task name", in order
    sinceStart,     \* per task name: ticks since its last "started" (saturating)
    startGap,       \* per task name: ticks between its last two "started"
    sinceGrant,     \* per task name: ticks since until_ready last returned (saturating)
    grantGap,       \* per task name: ticks between the last two returns of until_ready
    runtime,        \* TRUE while the tokio runtime of main polls the tasks
    timed           \* TRUE in the runs whose "started" lines are timed

vars == <<tasks, solve_pc, sent, robots_senders, inbox, lane_pc, cur, spent, limiter,
          permits, waiters, passed, started, finished, invalid, sinceStart, startGap,
          sinceGrant, grantGap, runtime, timed>>

(***************************** configuration ******************************)

Robots == {"Dave", "Cris", "Andi", "Nick", "Phil", "Maxi"}

\* faulty variant: water_the_plants is given the period of feed_the_cat
task_configQuick ==
    [t \in {"clean_the_windows", "water_the_plants", "feed_the_cat"} |->
        CASE t = "clean_the_windows" -> 5
          [] t = "water_the_plants"  -> 2
          [] t = "feed_the_cat"      -> 2]

\* task name -> period of its rate limiter, in seconds
task_config ==
    [t \in {"clean_the_windows", "water_the_plants", "feed_the_cat"} |->
        CASE t = "clean_the_windows" -> 5
          [] t = "water_the_plants"  -> 3
          [] t = "feed_the_cat"      -> 2]

\* faulty variant: execute_task lacks the arm of feed_the_cat
ExecuteTaskNamesShort == {"clean_the_windows", "water_the_plants"}

\* the names execute_task has an arm for
ExecuteTaskNames == {"clean_the_windows", "water_the_plants", "feed_the_cat"}

\* faulty variant: a semaphore of two permits
SemaphorePermitsTwo == 3 - 1

SemaphorePermits == 3

\* what one poll of a task may use before tokio makes it give way: every
\* recv, acquire or sleep that returns Ready takes one unit, and with none
\* left they return Pending and the task is polled again with a full budget
CoopBudget == 128

NoJob == [id |-> 0, task |-> ""]
None == 0 - 1


(******************************** inputs **********************************)

\* Bounds of the batches the model is run on.
MaxJobs == 2
LoadJobs == 5
LoadLanes == 4
LiveJobs == 2
LiveLanes == 4
QueueJobs == 6
QueueLanes == 5
RateJobs == 3
RefJobs == 1
RefLanes == 4
BudgetJobs == CoopBudget - 1

\* names a batch may use: registered ones and one that is not
BatchRobots == {"Dave", "Cris", "Zed"}
BatchTasks == {"feed_the_cat", "water_the_plants", "mow_the_lawn"}
LoadTasks == {"feed_the_cat"}
RateTasks == {"clean_the_windows", "water_the_plants"}
RobotOrder == <<"Dave", "Cris", "Andi", "Nick", "Phil", "Maxi">>

\* main numbers its jobs 1, 2, 3, ... in batch order
NumberJobs(rt) == [k \in 1..Len(rt) |-> [id |-> k, robot |-> rt[k][1], task |-> rt[k][2]]]

\* every batch of at most n jobs over BatchRobots and the task names T
FreeBatches(n, T) ==
    {NumberJobs(rt) : rt \in UNION {[1..m -> BatchRobots \X T] : m \in 0..n}}

\* n jobs of one task name of T, dealt round-robin to the first `lanes` robots
\* (as main deals its jobs to the six robots): with more than three lanes,
\* more lanes want to run than the semaphore has permits
LoadBatches(n, lanes, T) ==
    {NumberJobs([k \in 1..n |-> <<RobotOrder[((k - 1) % lanes) + 1], t>>]) : t \in T}

\* every batch of n jobs of the two task names of RateTasks, dealt round-robin
\* to two robots: the lanes of both go to the same two limiters
RateBatches(n) ==
    {NumberJobs([k \in 1..n |-> <<RobotOrder[((k - 1) % 2) + 1], ts[k]>>]) :
        ts \in [1..n -> RateTasks]}

\* the smaller family the liveness properties are checked on
LiveBatches ==
    FreeBatches(LiveJobs, {"feed_the_cat", "mow_the_lawn"})
        \cup LoadBatches(LiveLanes, LiveLanes, {"feed_the_cat"})

\* n jobs with an unregistered task name for one robot, then one it can run
BudgetBatches(n) ==
    {NumberJobs([k \in 1..(n + 1) |->
        <<"Dave", IF k <= n THEN "mow_the_lawn" ELSE "feed_the_cat">>])}

(******************************* helpers **********************************)

Min(a, b) == IF a < b THEN a ELSE b

\* task_config.get(task) is Some
Configured(task) == task \in DOMAIN task_config

\* faulty variant: the newest message is taken first
RecvNewest(q) == [job |-> q[Len(q)], rest |-> SubSeq(q, 1, Len(q) - 1)]

\* faulty variant: the message is read but stays queued
RecvPeek(q) == [job |-> Head(q), rest |-> q]

\* rx.recv() on a non-empty queue: the oldest message and what stays queued
RecvMsg(q) == [job |-> Head(q), rest |-> Tail(q)]

\* faulty variant: acquire never waits
PermitAlways == TRUE

\* the semaphore has a permit to give to a caller of acquire
PermitFree == permits > 0

\* the poll of lane l has used its cooperative budget up
BudgetSpent(l) == spent[l] >= CoopBudget

\* what a lane keeps of a count of n units once it has its job: nothing uses
\* the budget between recv and acquire, where all that matters is whether it
\* is used up
UsedUp(n) == IF n >= CoopBudget THEN CoopBudget ELSE 0

\* an `expect` of the dispatch loop has panicked and unwound solve
Panicked == solve_pc \in {"panic_unknown_robot", "panic_send"}

\* the runtime still polls the spawned lanes and drives the timers: a panic
\* of solve unwinds solve on the thread of block_on, the lanes go on on the
\* worker threads until the runtime is shut down
Alive == runtime

\* the lane's JoinHandle has completed
Ended(l) == lane_pc[l] \in {"done", "panicked"}

(******************************** Init ************************************)

\* the state solve is in once it has spawned the lanes, for a batch of B;
\* the timers of the "started" lines, which no action reads, run if t
InitWith(B, t) ==
    /\ tasks \in B
    /\ timed = t
    /\ runtime = TRUE
    /\ solve_pc = "dispatch"
    /\ sent = 0
    /\ robots_senders = TRUE
    /\ inbox = [l \in Robots |-> <<>>]
    /\ lane_pc = [l \in Robots |-> "idle"]
    /\ cur = [l \in Robots |-> NoJob]
    /\ spent = [l \in Robots |-> 0]
    /\ limiter = [c \in DOMAIN task_config |-> 0]
    /\ permits = SemaphorePermits
    /\ waiters = <<>>
    /\ passed = [l \in Robots |-> <<>>]
    /\ started = [l \in Robots |-> <<>>]
    /\ finished = [l \in Robots |-> <<>>]
    /\ invalid = [l \in Robots |-> <<>>]
    /\ sinceStart = [c \in DOMAIN task_config |-> None]
    /\ startGap = [c \in DOMAIN task_config |-> None]
    /\ sinceGrant = [c \in DOMAIN task_config |-> None]
    /\ grantGap = [c \in DOMAIN task_config |-> None]

Init ==
    \/ InitWith(FreeBatches(MaxJobs, BatchTasks), TRUE)
    \/ InitWith(LoadBatches(LoadJobs, LoadLanes, LoadTasks), FALSE)

(****************************** dispatcher ********************************)

\* what a step of the dispatcher leaves alone
laneVars == <<lane_pc, cur, spent, limiter, permits, waiters, passed, started,
              finished, invalid, sinceStart, startGap, sinceGrant, grantGap>>

\* one iteration of `for (id, robot, task_name) in tasks`; a panic of one of
\* its two `expect` unwinds solve, which drops robots_senders with the other
\* locals: every channel is closed
Dispatch ==
    /\ solve_pc = "dispatch"
    /\ sent < Len(tasks)
    /\ LET job == tasks[sent + 1] IN
         IF job.robot \notin Robots
         THEN /\ solve_pc' = "panic_unknown_robot"
              /\ robots_senders' = FALSE
              /\ UNCHANGED <<sent, inbox>>
         ELSE IF Ended(job.robot)
         THEN /\ solve_pc' = "panic_send"
              /\ robots_senders' = FALSE
              /\ UNCHANGED <<sent, inbox>>
         ELSE /\ inbox' = [inbox EXCEPT ![job.robot] =
                              Append(@, [id |-> job.id, task |-> job.task])]
              /\ sent' = sent + 1
              /\ UNCHANGED <<solve_pc, robots_senders>>
    /\ UNCHANGED <<tasks, runtime, timed>>
    /\ UNCHANGED laneVars

\* faulty variant: the senders are kept alive
KeepSenders ==
    /\ solve_pc = "dispatch"
    /\ sent = Len(tasks)
    /\ solve_pc' = "join"
    /\ UNCHANGED <<tasks, runtime, timed, sent, robots_senders, inbox>>
    /\ UNCHANGED laneVars

\* drop(robots_senders)
DropSenders ==
    /\ solve_pc = "dispatch"
    /\ sent = Len(tasks)
    /\ robots_senders' = FALSE
    /\ solve_pc' = "join"
    /\ UNCHANGED <<tasks, runtime, timed, sent, inbox>>
    /\ UNCHANGED laneVars

\* faulty variant: the handles are not awaited
JoinEarly ==
    /\ solve_pc = "join"
    /\ solve_pc' = "done"
    /\ UNCHANGED <<tasks, runtime, timed, sent, robots_senders, inbox>>
    /\ UNCHANGED laneVars

\* try_join_all(handles).await, then "all tasks have been done"
Join ==
    /\ solve_pc = "join"
    /\ \/ \A l \in Robots : lane_pc[l] = "done"
       \/ \E l \in Robots : lane_pc[l] = "panicked"
    /\ solve_pc' = "done"
    /\ UNCHANGED <<tasks, runtime, timed, sent, robots_senders, inbox>>
    /\ UNCHANGED laneVars

\* solve is over, by its return to main or by its panic: main ends and the
\* runtime is shut down with it, whatever the lanes are at
Shutdown ==
    /\ runtime
    /\ solve_pc = "done" \/ Panicked
    /\ runtime' = FALSE
    /\ UNCHANGED <<tasks, timed, solve_pc, sent, robots_senders, inbox>>
    /\ UNCHANGED laneVars

(********************************* lanes **********************************)

\* println "started", then execute_task is entered and suspends in its sleep
Start(l, job) ==
    /\ lane_pc' = [lane_pc EXCEPT ![l] = "exec"]
    /\ started' = [started EXCEPT ![l] = Append(@, job.id)]
    /\ IF timed
       THEN /\ startGap' = [startGap EXCEPT ![job.task] = sinceStart[job.task]]
            /\ sinceStart' = [sinceStart EXCEPT ![job.task] = 0]
       ELSE UNCHANGED <<startGap, sinceStart>>

\* sem.acquire().await is polled: with the budget used up it returns Pending
\* and the lane gives way with no permit and no place in the queue; else it
\* takes a free permit, or queues and suspends.  Whatever the answer, the
\* lane's next recv or acquire is in a later poll (the job body suspends it
\* first): the count of this one is dropped
AwaitPermit(l) ==
    /\ spent' = [spent EXCEPT ![l] = 0]
    /\ IF BudgetSpent(l)
       THEN /\ lane_pc' = [lane_pc EXCEPT ![l] = "yield"]
            /\ UNCHANGED <<permits, waiters>>
       ELSE IF PermitFree
       THEN /\ permits' = permits - 1
            /\ lane_pc' = [lane_pc EXCEPT ![l] = "permit"]
            /\ UNCHANGED waiters
       ELSE /\ waiters' = Append(waiters, l)
            /\ lane_pc' = [lane_pc EXCEPT ![l] = "acquire"]
            /\ UNCHANGED permits

\* the limiter of task name c has its cell: a full period has passed since
\* it last gave one (or it never gave one)
CellReady(c) == limiter[c] = 0

\* the limiter of task name c gives its cell: the next one is a period away;
\* the other limiters are not touched
Grant(c) == limiter' = [limiter EXCEPT ![c] = task_config[c]]

\* rt.until_ready() has returned for the job of lane l: the lane is at
\* sem.acquire() with the cell taken
TakeCell(l, job) ==
    /\ Grant(job.task)
    /\ passed' = [passed EXCEPT ![l] = Append(@, job.id)]
    /\ grantGap' = [grantGap EXCEPT ![job.task] = sinceGrant[job.task]]
    /\ sinceGrant' = [sinceGrant EXCEPT ![job.task] = 0]
    /\ lane_pc' = [lane_pc EXCEPT ![l] = "cell"]

\* faulty variant: the limiter is not consulted
AwaitReadySkip(l, job) ==
    /\ lane_pc' = [lane_pc EXCEPT ![l] = "cell"]
    /\ spent' = [spent EXCEPT ![l] = UsedUp(@ + 1)]
    /\ UNCHANGED <<limiter, passed, grantGap, sinceGrant>>

\* println "waiting", then rt.until_ready().await in the poll that received
\* the job (the recv has used one unit of its budget): take the cell if there
\* is one, or suspend
AwaitReady(l, job) ==
    IF CellReady(job.task)
    THEN /\ TakeCell(l, job)
         /\ spent' = [spent EXCEPT ![l] = UsedUp(@ + 1)]
    ELSE /\ lane_pc' = [lane_pc EXCEPT ![l] = "until_ready"]
         /\ spent' = [spent EXCEPT ![l] = 0]
         /\ UNCHANGED <<limiter, passed, grantGap, sinceGrant>>

\* the budget of the poll once it is back at rx.recv() with n units used: on
\* an empty queue recv ends the poll (it suspends the lane or returns None)
\* and the count with it
BackAtRecv(l, n, queued) ==
    spent' = [spent EXCEPT ![l] = IF queued = <<>> THEN 0 ELSE n]

\* faulty variant: `break` instead of `continue`
RejectAndStop(l, job, queued) ==
    /\ invalid' = [invalid EXCEPT ![l] = Append(@, job.id)]
    /\ lane_pc' = [lane_pc EXCEPT ![l] = "done"]
    /\ BackAtRecv(l, spent[l] + 1, queued)
    /\ UNCHANGED <<cur, limiter, passed, grantGap, sinceGrant>>

\* `else { println "invalid task name"; continue }`: back to rx.recv() in the
\* same poll, one unit of its budget gone with the recv that returned the job
Reject(l, job, queued) ==
    /\ invalid' = [invalid EXCEPT ![l] = Append(@, job.id)]
    /\ BackAtRecv(l, spent[l] + 1, queued)
    /\ UNCHANGED <<cur, lane_pc, limiter, passed, grantGap, sinceGrant>>

\* faulty variant: the job body is not awaited before the next recv
AtRecvOrRunning(l) == lane_pc[l] \in {"idle", "exec"}

\* the lane's loop is at `rx.recv().await`
AtRecv(l) == lane_pc[l] = "idle"

\* faulty variant: recv gives None on an empty queue whatever the senders
ClosedAlways == TRUE

\* every sender of the lanes' channels has been dropped
ChannelClosed == ~robots_senders

\* rx.recv().await is polled.  With a message queued it returns it (the job
\* is validated and taken to its limiter), unless the budget is used up: then
\* it returns Pending and the lane gives way.  On an empty queue it returns
\* None once the senders are dropped; before, the lane stays suspended
Recv(l) ==
    /\ Alive
    /\ AtRecv(l)
    /\ IF inbox[l] # <<>>
       THEN IF BudgetSpent(l)
            THEN /\ spent' = [spent EXCEPT ![l] = 0]
                 /\ UNCHANGED <<inbox, cur, lane_pc, invalid, limiter, passed,
                                grantGap, sinceGrant>>
            ELSE LET m == RecvMsg(inbox[l]) IN
                 /\ inbox' = [inbox EXCEPT ![l] = m.rest]
                 /\ IF Configured(m.job.task)
                    THEN /\ cur' = [cur EXCEPT ![l] = m.job]
                         /\ AwaitReady(l, m.job)
                         /\ UNCHANGED invalid
                    ELSE Reject(l, m.job, m.rest)
       ELSE /\ ChannelClosed
            /\ lane_pc' = [lane_pc EXCEPT ![l] = "done"]
            /\ UNCHANGED <<inbox, cur, spent, invalid, limiter, passed, grantGap,
                           sinceGrant>>
    /\ UNCHANGED <<tasks, runtime, timed, solve_pc, sent, robots_senders, permits, waiters,
                   started, finished, sinceStart, startGap>>

\* until_ready wakes with a cell available, in a new poll
UntilReady(l) ==
    /\ Alive
    /\ lane_pc[l] = "until_ready"
    /\ CellReady(cur[l].task)
    /\ TakeCell(l, cur[l])
    /\ UNCHANGED <<tasks, runtime, timed, solve_pc, sent, robots_senders, inbox, cur, spent,
                   permits, waiters, started, finished, invalid, sinceStart, startGap>>

\* the lane that has its cell gets to sem.acquire().await, at once or after
\* it gave way
Acquire(l) ==
    /\ Alive
    /\ lane_pc[l] \in {"cell", "yield"}
    /\ AwaitPermit(l)
    /\ UNCHANGED <<tasks, runtime, timed, solve_pc, sent, robots_senders, inbox, cur, limiter,
                   passed, started, finished, invalid, sinceStart, startGap,
                   sinceGrant, grantGap>>

\* the lane that has its permit (acquire returned it at once, or returns it
\* now that the lane is polled again) gets past println "started" and into
\* the job body
Started(l) ==
    /\ Alive
    /\ lane_pc[l] \in {"permit", "woken"}
    /\ Start(l, cur[l])
    /\ UNCHANGED <<tasks, runtime, timed, solve_pc, sent, robots_senders, inbox, cur,
                   spent, limiter, permits, waiters, passed, finished, invalid,
                   sinceGrant, grantGap>>

\* faulty variant: the permit is never given back
ReleaseNothing(l, to) ==
    /\ UNCHANGED <<permits, waiters>>
    /\ lane_pc' = [lane_pc EXCEPT ![l] = to]

\* faulty variant: the permit is given back but a queued acquire is not woken
ReleaseNoWake(l, to) ==
    /\ permits' = permits + 1
    /\ UNCHANGED waiters
    /\ lane_pc' = [lane_pc EXCEPT ![l] = to]

\* faulty variant: the permit is both handed over and put back
ReleaseDouble(l, to) ==
    /\ permits' = permits + 1
    /\ waiters' = IF waiters = <<>> THEN waiters ELSE Tail(waiters)
    /\ lane_pc' = IF waiters = <<>> THEN [lane_pc EXCEPT ![l] = to]
                  ELSE [lane_pc EXCEPT ![l] = to, ![Head(waiters)] = "woken"]

\* _permit is dropped: the permit goes to the oldest queued acquire, if any
Release(l, to) ==
    IF waiters = <<>>
    THEN /\ permits' = permits + 1
         /\ UNCHANGED waiters
         /\ lane_pc' = [lane_pc EXCEPT ![l] = to]
    ELSE /\ waiters' = Tail(waiters)
         /\ UNCHANGED permits
         /\ lane_pc' = [lane_pc EXCEPT ![l] = to, ![Head(waiters)] = "woken"]

\* the sleep of execute_task returns in a new poll (one unit of its budget):
\* println "finished", the permit is dropped at the end of the iteration and
\* the loop is back at recv; or execute_task panics
Finish(l) ==
    /\ Alive
    /\ lane_pc[l] = "exec"
    /\ IF cur[l].task \in ExecuteTaskNames
       THEN /\ finished' = [finished EXCEPT ![l] = Append(@, cur[l].id)]
            /\ Release(l, "idle")
       ELSE /\ UNCHANGED finished
            /\ Release(l, "panicked")
    /\ cur' = [cur EXCEPT ![l] = NoJob]
    /\ BackAtRecv(l, 1, inbox[l])
    /\ UNCHANGED <<tasks, runtime, timed, solve_pc, sent, robots_senders, inbox, limiter, passed,
                   started, invalid, sinceStart, startGap, sinceGrant, grantGap>>

(********************************* time ***********************************)

\* a timer that counts the seconds since an event, up to the period
Later(timer) ==
    [c \in DOMAIN task_config |->
        IF timer[c] = None THEN None ELSE Min(timer[c] + 1, task_config[c])]

\* one second passes on the limiters and on the timers of the properties
Advance ==
    /\ limiter' = [c \in DOMAIN task_config |-> IF limiter[c] > 0 THEN limiter[c] - 1 ELSE 0]
    /\ sinceStart' = Later(sinceStart)
    /\ sinceGrant' = Later(sinceGrant)
    /\ UNCHANGED <<tasks, runtime, timed, solve_pc, sent, robots_senders, inbox, lane_pc, cur,
                   spent, permits, waiters, passed, started, finished, invalid,
                   startGap, grantGap>>

\* one second passes.  A sleep only has a minimum and a woken task runs when
\* the runtime gets to it: nothing has to happen before the tick
Tick ==
    /\ Alive
    /\ Advance
    /\ <<limiter', sinceStart', sinceGrant'>> # <<limiter, sinceStart, sinceGrant>>

Lane(l) ==
    Recv(l) \/ UntilReady(l) \/ Acquire(l) \/ Started(l) \/ Finish(l)

Next ==
    \/ Dispatch
    \/ DropSenders
    \/ Join
    \/ Shutdown
    \/ Tick
    \/ \E l \in Robots : Recv(l)
    \/ \E l \in Robots : UntilReady(l)
    \/ \E l \in Robots : Acquire(l)
    \/ \E l \in Robots : Started(l)
    \/ \E l \in Robots : Finish(l)

Spec == Init /\ [][Next]_vars

\* The runtime keeps polling every task that can make progress: the body of
\* solve (on the thread that called block_on), each spawned lane, and the
\* timer driver.
Fairness ==
    /\ WF_vars(Dispatch \/ DropSenders \/ Join \/ Shutdown)
    /\ WF_vars(Tick)
    /\ \A l \in Robots : WF_vars(Lane(l))

LiveSpec == InitWith(LiveBatches, FALSE) /\ [][Next]_vars /\ Fairness

\* solve on load batches with two lanes more that have a job than there are
\* permits, one of them with a second job
QueueInit == InitWith(LoadBatches(QueueJobs, QueueLanes, {"feed_the_cat"}), FALSE)

QueueSpec == QueueInit /\ [][Next]_vars /\ Fairness

\* the batch of main: robot by robot, five jobs each
MainPatternA ==
    <<"clean_the_windows", "water_the_plants", "clean_the_windows", "feed_the_cat",
      "clean_the_windows">>

MainPatternB ==
    <<"water_the_plants", "clean_the_windows", "clean_the_windows", "feed_the_cat",
      "water_the_plants">>

MainJob(k) ==
    [id |-> k,
     robot |-> RobotOrder[((k - 1) \div 5) + 1],
     task |-> IF ((k - 1) \div 5) % 2 = 0 THEN MainPatternA[((k - 1) % 5) + 1]
              ELSE MainPatternB[((k - 1) % 5) + 1]]

MainBatch == [k \in 1..30 |-> MainJob(k)]

\* the jobs of main's batch for its first `lanes` robots, the first n of each
RefBatch(n, lanes) ==
    SelectSeq(MainBatch, LAMBDA j : /\ (j.id - 1) \div 5 < lanes
                                    /\ (j.id - 1) % 5 < n)

\* solve on the first jobs of main's batch
RefInit == InitWith({RefBatch(RefJobs, RefLanes)}, FALSE)

RefSpec == RefInit /\ [][Next]_vars

\* solve on batches that use two limiters from two lanes, and on the load
\* batch, which uses the third from four
RateInit ==
    InitWith(RateBatches(RateJobs) \cup LoadBatches(LiveLanes, LiveLanes, {"feed_the_cat"}),
             FALSE)

RateSpec == RateInit /\ [][Next]_vars

\* solve on a lane's inbox of unregistered task names, and on the load batch
BudgetInit ==
    InitWith(BudgetBatches(BudgetJobs) \cup LoadBatches(LiveLanes, LiveLanes, {"feed_the_cat"}),
             FALSE)

BudgetSpec == BudgetInit /\ [][Next]_vars

(***************************** properties *********************************)

Range(q) == {q[k] : k \in 1..Len(q)}

IsPrefix(p, q) == Len(p) <= Len(q) /\ \A k \in 1..Len(p) : p[k] = q[k]

\* the ids of the jobs the batch assigns to robot l from position k on, in
\* batch order (only those with a registered task name, if asked)
RECURSIVE IdsFrom(_, _, _)
IdsFrom(k, l, onlyConfigured) ==
    IF k > Len(tasks) THEN <<>>
    ELSE IF tasks[k].robot = l /\ (onlyConfigured => tasks[k].task \in DOMAIN task_config)
         THEN <<tasks[k].id>> \o IdsFrom(k + 1, l, onlyConfigured)
         ELSE IdsFrom(k + 1, l, onlyConfigured)

\* ids of the jobs the batch assigns to robot l whose task name is registered
RunnableOf(l) == IdsFrom(1, l, TRUE)

\* how many times execute_task has been entered for job id
Executions(id) ==
    Cardinality({<<l, k>> \in Robots \X (1..Len(tasks)) :
                    k <= Len(started[l]) /\ started[l][k] = id})

\* the lanes that hold a permit: given one while queued, at println "started",
\* or in the job body
Executing == {l \in Robots : lane_pc[l] \in {"woken", "permit", "exec"}}

AllRegistered == \A k \in 1..Len(tasks) : tasks[k].robot \in Robots

\* C1: two consecutive "started" of one task name, over all robots, are at
\* least that task name's period apart.
C1_StartsAtLeastPeriodApart ==
    \A c \in DOMAIN task_config : startGap[c] # None => startGap[c] >= task_config[c]

\* C2: when solve panics on an unknown robot, no lane has begun any job of
\* the batch: every lane is still at its first recv with nothing printed.
C2_UnknownRobotBeforeAnyJob ==
    solve_pc = "panic_unknown_robot" =>
        \A l \in Robots : /\ lane_pc[l] = "idle"
                          /\ started[l] = <<>>
                          /\ finished[l] = <<>>

\* C3: each robot starts, and finishes, its jobs in the order the batch lists
\* them: what it has started is a prefix of its runnable jobs in batch order,
\* what it has finished is a prefix of what it has started, and once solve
\* has completed both are the whole sequence.
C3_LaneKeepsBatchOrder ==
    \A l \in Robots : /\ IsPrefix(started[l], RunnableOf(l))
                      /\ IsPrefix(finished[l], started[l])
                      /\ solve_pc = "done" =>
                            started[l] = RunnableOf(l) /\ finished[l] = started[l]

C3_Witness ==
    \E l \in Robots : /\ Len(finished[l]) >= 2
                      /\ \E m \in Robots \ {l} : finished[m] # <<>>

\* C4: at most three jobs are between permit and completion at any time.
C4_AtMostThreeExecuting == Cardinality(Executing) <= 3

C4_Witness ==
    /\ Cardinality({l \in Robots : lane_pc[l] = "exec"}) = 3
    /\ \E l \in Robots : lane_pc[l] = "acquire"

\* C5: execute_task is entered at most once per job id, and once solve has
\* completed it has been entered exactly once for every job of the batch
\* whose task name is registered.
C5_ExecutedOnce ==
    /\ \A id \in 1..Len(tasks) : Executions(id) <= 1
    /\ solve_pc = "done" =>
          \A id \in 1..Len(tasks) :
              Executions(id) = IF tasks[id].task \in DOMAIN task_config THEN 1 ELSE 0

C5_Witness ==
    /\ solve_pc = "done"
    /\ \E a, b \in 1..Len(tasks) : /\ tasks[a].task \in DOMAIN task_config
                                   /\ Executions(a) = 1
                                   /\ tasks[b].task \notin DOMAIN task_config
                                   /\ Executions(b) = 0

\* job k of the batch has been printed "finished" or "invalid task name"
Terminal(k) ==
    LET l == tasks[k].robot IN
    l \in Robots /\ tasks[k].id \in Range(finished[l]) \cup Range(invalid[l])

AllJobsTerminal == \A k \in 1..Len(tasks) : Terminal(k)

\* the jobs a lane has taken from its inbox and not yet finished or rejected
InProgress(l) ==
    ({tasks[k].id : k \in {j \in 1..sent : tasks[j].robot = l}}
        \ {m.id : m \in Range(inbox[l])})
        \ (Range(finished[l]) \cup Range(invalid[l]))

\* C6: when every robot of the batch is registered, every job of the batch
\* is eventually printed "finished" or "invalid task name".
C6_EveryJobReachesAnOutcome == AllRegistered ~> AllJobsTerminal

C6_Witness ==
    /\ AllRegistered
    /\ AllJobsTerminal
    /\ \E l \in Robots : Len(finished[l]) >= 2
    /\ grantGap["feed_the_cat"] # None

\* this step is lane l rejecting a job
RejectStep(l) == invalid'[l] # invalid[l]

\* lane l has had to give way at sem.acquire() with its cell taken
GaveWay(l) == lane_pc[l] = "yield"

\* C7: a job whose task name is not registered is never started, the step
\* that rejects it takes no rate limiter cell and no permit and leaves the
\* lane at recv with the rest of its inbox, and the jobs after it are taken
\* through the loop as if it had not been queued: a lane that rejects nothing
\* uses three units of a poll's budget at the most (the return of the sleep,
\* recv, acquire) and never has to give way between until_ready and acquire,
\* so no lane ever does.
C7_AsIfNotInInbox ==
    /\ [](\A l \in Robots : \A id \in Range(started[l]) :
              tasks[id].task \in DOMAIN task_config)
    /\ [][\A l \in Robots :
            RejectStep(l) =>
                /\ lane_pc[l] = "idle" /\ lane_pc' = lane_pc
                /\ inbox'[l] = Tail(inbox[l])
                /\ UNCHANGED <<limiter, permits, waiters, cur, passed, started,
                               finished, sinceStart, startGap>>]_vars
    /\ [](\A l \in Robots : ~GaveWay(l))

\* C8: a lane has at most one job in progress, and none while it is at recv
\* or terminated.
C8_OneJobPerLane ==
    \A l \in Robots : /\ Cardinality(InProgress(l)) <= 1
                      /\ lane_pc[l] \in {"idle", "done"} => InProgress(l) = {}

C8_Witness ==
    \E l \in Robots : /\ lane_pc[l] = "exec"
                      /\ inbox[l] # <<>>
                      /\ permits > 0
                      /\ limiter[inbox[l][1].task] = 0

\* a step of the dispatcher, of a lane or of the clock
Progress ==
    \/ Dispatch
    \/ DropSenders
    \/ Join
    \/ Tick
    \/ \E l \in Robots : Lane(l)

\* C9: while the runtime runs and some lane has not terminated, some step of
\* the dispatcher, of a lane or of the clock is enabled.
C9_NoDeadlock ==
    (Alive /\ \E l \in Robots : lane_pc[l] # "done") => ENABLED Progress

C9_Witness ==
    /\ permits = 0
    /\ \E l \in Robots : /\ lane_pc[l] = "acquire"
                         /\ limiter[cur[l].task] > 0

\* C10: when every robot of the batch is registered, once solve has dropped
\* the senders every lane terminates and solve prints "all tasks have been
\* done".
C10_LanesDrainAndSolveReturns ==
    (AllRegistered /\ solve_pc = "join") ~>
        (solve_pc = "done" /\ \A l \in Robots : lane_pc[l] = "done" /\ inbox[l] = <<>>)

C10_Witness ==
    /\ solve_pc = "done"
    /\ \A l \in Robots : lane_pc[l] = "done"
    /\ \E l \in Robots : Len(finished[l]) >= 2


\* C11: solve prints "all tasks have been done" only when each of the six
\* lanes has terminated, so that no job is queued in an inbox, held by a lane
\* that waits for its limiter or for a permit, or executing.
C11_DoneOnlyWhenAllLanesTerminated ==
    solve_pc = "done" =>
        /\ \A l \in Robots : /\ lane_pc[l] = "done"
                             /\ inbox[l] = <<>>
                             /\ cur[l] = NoJob
        /\ waiters = <<>>
        /\ Executing = {}

C11_Witness ==
    /\ solve_pc = "done"
    /\ \E l \in Robots : finished[l] # <<>>
    /\ \E l \in Robots : invalid[l] # <<>>

\* the lanes that have printed "started" and not ended that loop iteration
Running == {l \in Robots : lane_pc[l] = "exec"}

\* the permits that are not in the semaphore
PermitsHeld == SemaphorePermits - permits

\* C12 as stated: the permits held are as many as the lanes between
\* "started" and the end of that loop iteration, held and free permits sum
\* to three, and a lane that is idle, waits for its limiter or has terminated
\* holds none.
C12_HeldEqualsRunning ==
    /\ PermitsHeld = Cardinality(Running)
    /\ PermitsHeld + permits = SemaphorePermits
    /\ permits >= 0

\* C12, amended: the permits held are as many as the lanes between the
\* return of acquire's permit (granted at once or handed over by a release)
\* and the end of that loop iteration; held and free permits sum to three;
\* a lane that is idle, waits for its limiter, is queued on the semaphore or
\* has terminated holds none, and every iteration that ends gives its permit
\* back.
C12_PermitHeldWhileExecuting ==
    /\ PermitsHeld = Cardinality(Executing)
    /\ PermitsHeld + permits = SemaphorePermits
    /\ permits >= 0
    /\ \A l \in Robots :
          lane_pc[l] \in {"idle", "until_ready", "cell", "yield", "acquire", "done"} =>
              l \notin Executing
    /\ (\A l \in Robots : lane_pc[l] \in {"idle", "until_ready", "cell", "yield", "done"}) =>
          permits = SemaphorePermits

C12_Witness ==
    /\ \E l \in Robots : lane_pc[l] = "permit"
    /\ \E l \in Robots : lane_pc[l] = "until_ready"
    /\ \E l \in Robots : finished[l] # <<>>


\* The scenario of C13 on this code: two workers (Dave for A, Cris for B),
\* one job each of the category whose interval is 2 (feed_the_cat), handed to
\* solve at t = 0.
Scenario13Batch == NumberJobs(<<<<"Dave", "feed_the_cat">>, <<"Cris", "feed_the_cat">>>>)

Scenario13Run == tasks = Scenario13Batch

\* C13: in the scenario the second of the two jobs to start does so 2 or
\* more time-units after the first, never earlier, and both jobs have
\* completed when solve returns.  (The part of the scenario that does not
\* depend on the capacity, which solve fixes at three, nor on which of the
\* two lanes the runtime polls first.)
C13_SecondStartsAnIntervalLater ==
    Scenario13Run =>
        /\ startGap["feed_the_cat"] # None => startGap["feed_the_cat"] >= 2
        /\ solve_pc = "done" => finished["Dave"] = <<1>> /\ finished["Cris"] = <<2>>

\* the intervals C15 names
GateInterval ==
    [c \in {"clean_the_windows", "water_the_plants", "feed_the_cat"} |->
        CASE c = "clean_the_windows" -> 5
          [] c = "water_the_plants"  -> 3
          [] c = "feed_the_cat"      -> 2]

\* the limiter of task name c is a gate of fixed interval: its next cell is
\* due one interval after the last one it gave, and at once if it gave none
FixedIntervalGate(c) ==
    limiter[c] = IF sinceGrant[c] = None THEN 0 ELSE GateInterval[c] - sinceGrant[c]

\* this step is a return of until_ready for a job of task name c
GrantStep(c) == \E l \in Robots : /\ passed'[l] # passed[l]
                                  /\ cur'[l].task = c

\* task name c has been granted to two different lanes
GrantedToTwoLanes(c) ==
    \E l \in Robots : \E m \in Robots \ {l} :
        /\ \E i \in Range(passed[l]) : tasks[i].task = c
        /\ \E j \in Range(passed[m]) : tasks[j].task = c

LaneMoveAllowed(l) ==
    \/ lane_pc'[l] = lane_pc[l]
    \/ /\ lane_pc[l] = "idle"
       /\ \/ lane_pc'[l] = "until_ready"
          \/ lane_pc'[l] = "cell" /\ passed'[l] = Append(passed[l], cur'[l].id)
          \/ lane_pc'[l] = "done" /\ ~robots_senders /\ inbox[l] = <<>>
    \/ /\ lane_pc[l] = "until_ready"
       /\ lane_pc'[l] = "cell"
       /\ passed'[l] = Append(passed[l], cur[l].id)
    \/ lane_pc[l] = "cell" /\ lane_pc'[l] \in {"yield", "acquire", "permit"}
    \/ lane_pc[l] = "yield" /\ lane_pc'[l] \in {"acquire", "permit"}
    \/ lane_pc[l] = "acquire" /\ lane_pc'[l] = "woken"
    \/ /\ lane_pc[l] \in {"woken", "permit"}
       /\ lane_pc'[l] = "exec"
       /\ started'[l] = Append(started[l], cur[l].id)
    \/ /\ lane_pc[l] = "exec"
       /\ lane_pc'[l] = "idle"
       /\ finished'[l] = Append(finished[l], cur[l].id)

\* what lane l has logged of its jobs, by the place it is at: every job is
\* granted by its limiter, then given a permit, then printed "started", then
\* printed "finished"
JobInOrder(l) ==
    /\ lane_pc[l] \in {"idle", "done"} <=> cur[l] = NoJob
    /\ lane_pc[l] \in {"idle", "done"} =>
          passed[l] = started[l] /\ started[l] = finished[l]
    /\ lane_pc[l] = "until_ready" =>
          /\ cur[l].id \notin Range(passed[l])
          /\ passed[l] = started[l] /\ started[l] = finished[l]
    /\ lane_pc[l] \in {"cell", "yield", "acquire", "woken", "permit"} =>
          /\ passed[l] = Append(started[l], cur[l].id)
          /\ started[l] = finished[l]
    /\ lane_pc[l] \in {"cell", "yield", "acquire"} => l \notin Executing
    /\ lane_pc[l] = "exec" =>
          /\ passed[l] = started[l]
          /\ started[l] = Append(finished[l], cur[l].id)

\* C16: every lane follows Idle -> WaitingRateLimit -> WaitingConcurrency ->
\* Executing -> Idle, becomes Terminated only from Idle with its inbox closed
\* and empty, and never leaves Terminated; for every job it executes the
\* limiter's grant comes before the permit, the permit before "started", and
\* "started" before "finished".
C16_LaneStateMachine ==
    /\ [](\A l \in Robots : JobInOrder(l) /\ lane_pc[l] # "panicked")
    /\ [](SemaphorePermits - permits = Cardinality(Executing))
    /\ [][\A l \in Robots : LaneMoveAllowed(l)]_vars

C16_Witness ==
    \E l \in Robots : /\ Len(finished[l]) = 1
                      /\ Len(passed[l]) = 2
                      /\ lane_pc[l] = "woken"
                      /\ \E m \in Robots : lane_pc[m] = "done" /\ finished[m] # <<>>

\* the lanes between the return of until_ready and the job body
AwaitingStart ==
    {l \in Robots : lane_pc[l] \in {"cell", "yield", "acquire", "woken", "permit"}}

\* a lane that has passed its limiter goes nowhere but to its permit, and
\* with the permit nowhere but into its job
AdmittedOnly(l) ==
    /\ lane_pc[l] \in {"cell", "yield"} =>
          lane_pc'[l] \in {"cell", "yield", "acquire", "permit"}
    /\ lane_pc[l] = "acquire" =>
          \/ lane_pc'[l] = "acquire"
          \/ lane_pc'[l] = "woken" /\ l = Head(waiters)
    /\ lane_pc[l] \in {"woken", "permit"} => lane_pc'[l] \in {lane_pc[l], "exec"}

\* C17: under weak fairness of the lanes, a lane that has passed its limiter
\* and waits for a permit is eventually given one and starts its job: no
\* lane waits for a permit for ever while others are admitted.  Stated as: no
\* lane is queued while a permit is free, the queued lanes are those at
\* acquire, a lane that has passed its limiter goes nowhere but to its permit
\* (a queued one when it is the oldest in the queue) and from there into its
\* job, and again and again no lane is in between; so every lane that waits
\* is admitted and starts.
C17_WaitingLaneIsAdmitted ==
    /\ [](waiters # <<>> => permits = 0)
    /\ [](\A l \in Robots : lane_pc[l] = "acquire" <=> l \in Range(waiters))
    /\ [][\A l \in Robots : AdmittedOnly(l)]_vars
    /\ []<>(AwaitingStart = {})

\* two lanes were queued at once; the older has been given the permit of a
\* job that finished, the younger still waits, and behind it waits the lane
\* of that job, back with its next one
C17_Witness ==
    \E l \in Robots :
        /\ lane_pc[l] = "woken"
        /\ Len(waiters) = 2
        /\ finished[waiters[1]] = <<>>
        /\ finished[waiters[2]] # <<>>

\* C18: sending a job to a lane never has to wait (the channels are
\* unbounded) and fails only on a lane that has ended; as no lane ends before
\* solve has dropped the senders, which it does after the last send, the
\* "failed to send task" panic is unreachable.
C18_SendNeverFails ==
    /\ solve_pc # "panic_send"
    /\ (solve_pc = "dispatch" /\ sent < Len(tasks)) => ENABLED Dispatch
    /\ \A l \in Robots : Ended(l) => ~robots_senders /\ solve_pc # "dispatch"

C18_Witness ==
    /\ solve_pc = "dispatch"
    /\ AllRegistered
    /\ sent = Len(tasks)
    /\ sent >= 2
    /\ \E l \in Robots : /\ finished[l] # <<>>
                         /\ lane_pc[l] = "idle"
                         /\ inbox[l] = <<>>

\* C19: every task name registered in task_config has an arm in execute_task,
\* so no lane reaches the "invalid task_name" panic, for any batch; hence no
\* lane ends while it holds a permit or while jobs are left in its inbox.
C19_NoLanePanics ==
    /\ DOMAIN task_config \subseteq ExecuteTaskNames
    /\ \A l \in Robots :
          /\ lane_pc[l] # "panicked"
          /\ l \in Executing => cur[l].task \in ExecuteTaskNames
          /\ Ended(l) => /\ inbox[l] = <<>>
                         /\ l \notin Executing
                         /\ finished[l] = started[l]
                         /\ AllRegistered => finished[l] = RunnableOf(l)

C19_Witness ==
    /\ \E l \in Robots : /\ lane_pc[l] = "done"
                         /\ finished[l] # <<>>
                         /\ invalid[l] # <<>>
    /\ \E l \in Robots : lane_pc[l] # "done"

\* the lanes that hold a job of task name c between the return of
\* until_ready and "finished"
InHand(c) == {l \in AwaitingStart \cup Executing : cur[l].task = c}

================================================================
